---- MODULE Spec2Model ----
(***************************************************************************)
(* Identifier node of the tree-shaking engine (src/unnamed/part_000) and   *)
(* the collaborators it calls (scopes, variables, module context).         *)
(*                                                                         *)
(* A run holds one function `f` of one module:                             *)
(*                                                                         *)
(*   import { imp } from 'external';                                       *)
(*   function f(x /* d2 */) {                                              *)
(*     {                                                                   *)
(*       x;            /* rSame   */                                       *)
(*       () => x;      /* rNested */                                       *)
(*       <kind> x;     /* d1      */                                       *)
(*       x;            /* rAfter  */                                       *)
(*     }                                                                   *)
(*   }                                                                     *)
(*   foo;              /* rGlob   */                                       *)
(*   imp;              /* rImp    */                                       *)
(*   ({ key: 0 });     /* rKey    */                                       *)
(*                                                                         *)
(* A run operates on one of the identifiers in expression position and,    *)
(* when it names x, on the declaration sites d1 and d2; which declarations *)
(* are made, and with which kind, is chosen by the declare steps.  The     *)
(* Binder runs before the Driver asks a node anything: an identifier is    *)
(* queried, deoptimized and included once bind has nothing left to resolve *)
(* on it.  Every run is taken                                              *)
(* twice, with the same calls: st with the configured Purity Registry,     *)
(* base with an empty one.  The value a call returns is not state: the     *)
(* properties evaluate the calls in every reachable state.  A call that    *)
(* raises ends the run.                                                    *)
(***************************************************************************)
EXTENDS Naturals, Sequences, FiniteSets, TLC

VARIABLES st, base, ids, driver, graph, proxy

vars == <<st, base, ids, driver, graph, proxy>>

\* ------------------------------------------------------------------ bounds
MaxPathLen == 1

\* ------------------------------------------------------------- AST (static)
Program == <<"Program">>
FunctionDeclaration == <<"Function", "Declaration">>
ArrowFunctionExpression == <<"Arrow", "Function", "Expression">>
BlockStatement == <<"Block", "Statement">>
VariableDeclarator == <<"Variable", "Declarator">>
ExpressionStatement == <<"Expression", "Statement">>
IdentifierType == <<"Identifier">>
Property == <<"Property">>

NoNode == "none"

Node ==
  [ prog    |-> [type |-> Program,                 parent |-> NoNode,  start |-> 0,  name |-> "", scope |-> "module"],
    fn      |-> [type |-> FunctionDeclaration,     parent |-> "prog",  start |-> 2,  name |-> "", scope |-> "fnScope"],
    d2      |-> [type |-> IdentifierType,          parent |-> "fn",    start |-> 4,  name |-> "x", scope |-> "fnScope"],
    blk     |-> [type |-> BlockStatement,          parent |-> "fn",    start |-> 6,  name |-> "", scope |-> "blkScope"],
    stmt1   |-> [type |-> ExpressionStatement,     parent |-> "blk",   start |-> 8,  name |-> "", scope |-> "blkScope"],
    rSame   |-> [type |-> IdentifierType,          parent |-> "stmt1", start |-> 8,  name |-> "x", scope |-> "blkScope"],
    inner   |-> [type |-> ArrowFunctionExpression, parent |-> "blk",   start |-> 10, name |-> "", scope |-> "innerScope"],
    rNested |-> [type |-> IdentifierType,          parent |-> "inner", start |-> 12, name |-> "x", scope |-> "innerScope"],
    decl1   |-> [type |-> VariableDeclarator,      parent |-> "blk",   start |-> 20, name |-> "", scope |-> "blkScope"],
    d1      |-> [type |-> IdentifierType,          parent |-> "decl1", start |-> 20, name |-> "x", scope |-> "blkScope"],
    rAfter  |-> [type |-> IdentifierType,          parent |-> "blk",   start |-> 24, name |-> "x", scope |-> "blkScope"],
    rGlob   |-> [type |-> IdentifierType,          parent |-> "prog",  start |-> 40, name |-> "foo", scope |-> "module"],
    rImp    |-> [type |-> IdentifierType,          parent |-> "prog",  start |-> 44, name |-> "imp", scope |-> "module"],
    prop    |-> [type |-> Property,                parent |-> "prog",  start |-> 50, name |-> "", scope |-> "module"],
    rKey    |-> [type |-> IdentifierType,          parent |-> "prop",  start |-> 50, name |-> "key", scope |-> "module"] ]

DeclIds == {"d1", "d2"}
\* the identifiers in expression position; rKey is the key of a property
RefIds == {"rSame", "rNested", "rAfter", "rGlob", "rImp", "rKey"}
Identifiers == DeclIds \cup RefIds

ModuleId == "main"

\* /^(Program|Function)/: both alternatives anchored
isFunctionOrProgram_anchored(type) ==
  type[1] \in {"Program", "Function"}

\* /^Program|Function/.test(type), on the words of the type name
isFunctionOrProgram(type) ==
  \/ type[1] = "Program"
  \/ \E k \in 1..Len(type) : type[k] = "Function"

RECURSIVE closestParentFunctionOrProgram(_)
closestParentFunctionOrProgram(node) ==
  IF node # NoNode /\ ~isFunctionOrProgram(Node[node].type)
    THEN closestParentFunctionOrProgram(Node[node].parent)
    ELSE node

\* ------------------------------------------------------------------ scopes
ScopeParent ==
  [ global |-> "none", module |-> "global", fnScope |-> "module",
    blkScope |-> "fnScope", innerScope |-> "blkScope" ]

ScopeKind ==
  [ global |-> "global", module |-> "module", fnScope |-> "function",
    blkScope |-> "block", innerScope |-> "function" ]

\* A variable is identified by the scope that holds it and its name.
NoVar == <<>>
ImportVar == <<"external", "imp">>

tdzVariableKinds == {"class", "const", "let", "var"}
DeclarationKinds == {"var", "function", "let", "const", "class", "parameter"}
NoKind == "none"

\* --------------------------------------------------------------- paths
Segments == {"a"}

RECURSIVE SeqsUpTo(_, _)
SeqsUpTo(S, n) ==
  IF n = 0 THEN {<<>>}
  ELSE LET shorter == SeqsUpTo(S, n - 1)
       IN  shorter \cup {Append(p, x) : p \in {q \in shorter : Len(q) = n - 1}, x \in S}

Paths == SeqsUpTo(Segments, MaxPathLen)
EMPTY_PATH == <<>>

Prefix(p, k) == SubSeq(p, 1, k)

\* ------------------------------------------------------- Purity Registry
\* manualPureFunctions: nested objects keyed by path segment; an object is
\* named here by its key path from the root, `pure` holds the objects that
\* carry PureFunctionKey.
Undefined == <<>>

RegistryOf(pureNames) ==
  [ nodes |-> UNION { {Prefix(p, k) : k \in 1..Len(p)} : p \in pureNames },
    pure  |-> pureNames ]

EmptyRegistry == RegistryOf({})

ManualPureFunctions == RegistryOf({<<"foo">>, <<"x", "a">>})

PropertyOf(reg, cur, segment) ==
  IF Append(cur, segment) \in reg.nodes THEN Append(cur, segment) ELSE Undefined

\* the walk without the early return on a pure prefix
RECURSIVE pureWalk_exact(_, _, _)
pureWalk_exact(reg, cur, rest) ==
  IF rest = <<>>
    THEN cur # Undefined /\ cur \in reg.pure
    ELSE IF cur # Undefined
           THEN pureWalk_exact(reg, PropertyOf(reg, cur, Head(rest)), Tail(rest))
           ELSE FALSE

RECURSIVE pureWalk(_, _, _)
pureWalk(reg, cur, rest) ==
  IF rest = <<>>
    THEN cur # Undefined /\ cur \in reg.pure
    ELSE IF cur # Undefined
           THEN IF cur \in reg.pure
                  THEN TRUE
                  ELSE pureWalk(reg, PropertyOf(reg, cur, Head(rest)), Tail(rest))
           ELSE FALSE

isPureFunction(s, i, path) ==
  pureWalk(s.manualPureFunctions,
           PropertyOf(s.manualPureFunctions, <<>>, Node[i].name),
           path)

\* ------------------------------------------------------- Variable Store
GlobalVariable(name) ==
  [ cls |-> "global", kind |-> NoKind, declarations |-> <<>>, initReached |-> FALSE,
    deoptimizedPaths |-> {}, initsMarked |-> FALSE, consolidated |-> FALSE,
    references |-> <<>> ]

ExternalVariable(name) ==
  [ cls |-> "external", kind |-> NoKind, declarations |-> <<>>, initReached |-> FALSE,
    deoptimizedPaths |-> {}, initsMarked |-> FALSE, consolidated |-> FALSE,
    references |-> <<>> ]

LocalVariable(name, declaration) ==
  [ cls |-> "local", kind |-> NoKind, declarations |-> <<declaration>>, initReached |-> FALSE,
    deoptimizedPaths |-> {}, initsMarked |-> FALSE, consolidated |-> FALSE,
    references |-> <<>> ]

\* ParameterVariable extends LocalVariable
ParameterVariable(name, declaration) ==
  [ LocalVariable(name, declaration) EXCEPT !.cls = "parameter" ]

isLocalVariable(variables, v) ==
  v # NoVar /\ variables[v].cls \in {"local", "parameter"}

isGlobalVariable(variables, v) ==
  v # NoVar /\ variables[v].cls = "global"

Put(variables, v, rec) ==
  [ w \in DOMAIN variables \cup {v} |-> IF w = v THEN rec ELSE variables[w] ]

\* scope.contains(name)
RECURSIVE contains(_, _, _)
contains(variables, scope, name) ==
  \/ <<scope, name>> \in DOMAIN variables
  \/ ScopeParent[scope] # "none" /\ contains(variables, ScopeParent[scope], name)

\* scope.findVariable(name): outward walk; the module scope traces imports,
\* the global scope creates the ambient variable on demand.
RECURSIVE findVariable(_, _, _)
findVariable(variables, scope, name) ==
  IF <<scope, name>> \in DOMAIN variables
    THEN [variables |-> variables, v |-> <<scope, name>>]
  ELSE IF scope = "global"
    THEN [variables |-> Put(variables, <<"global", name>>, GlobalVariable(name)),
          v |-> <<"global", name>>]
  ELSE IF scope = "module" /\ name = ImportVar[2]
    THEN [variables |-> variables, v |-> ImportVar]
  ELSE findVariable(variables, ScopeParent[scope], name)

\* scope.addDeclaration(identifier, context, init, isHoisted)
RECURSIVE addDeclaration(_, _, _, _)
addDeclaration(variables, scope, i, isHoisted) ==
  IF ScopeKind[scope] = "block" /\ isHoisted
    THEN LET up == addDeclaration(variables, ScopeParent[scope], i, isHoisted)
         IN  [variables |-> [up.variables EXCEPT ![up.v].initsMarked = TRUE], v |-> up.v]
    ELSE LET v == <<scope, Node[i].name>>
         IN  IF v \in DOMAIN variables
               THEN [variables |-> [variables EXCEPT ![v].declarations = Append(@, i)], v |-> v]
               ELSE [variables |-> Put(variables, v, LocalVariable(Node[i].name, i)), v |-> v]

\* functionScope.addParameterDeclaration(identifier)
addParameterDeclaration(variables, scope, i) ==
  LET v == <<scope, Node[i].name>>
  IN  [variables |-> Put(variables, v, ParameterVariable(Node[i].name, i)), v |-> v]

\* variable.deoptimizePath(path): idempotent, a deoptimized path covers its
\* extensions
isPrefix(p, q) == Len(p) <= Len(q) /\ Prefix(q, Len(p)) = p

isDeoptimized(paths, path) == \E p \in paths : isPrefix(p, path)

variableDeoptimizePath(paths, path) ==
  IF isDeoptimized(paths, path)
    THEN paths
    ELSE {p \in paths : ~isPrefix(path, p)} \cup {path}

\* variable.hasEffectsOnInteractionAtPath(path, interaction, context): the
\* unknown expression always answers yes, reading an undeclared global has an
\* effect, every other answer is the variable's own (oracle).
UNKNOWN_EXPRESSION == <<"UNKNOWN_EXPRESSION">>
INTERACTION_ACCESSED == "accessed"
INTERACTION_ASSIGNED == "assigned"
INTERACTION_CALLED == "called"
Interactions == {INTERACTION_ACCESSED, INTERACTION_ASSIGNED, INTERACTION_CALLED}

entityHasEffectsOnInteractionAtPath(variables, e, path, interaction, oracle) ==
  IF e = UNKNOWN_EXPRESSION THEN TRUE
  ELSE IF isGlobalVariable(variables, e) /\ interaction = INTERACTION_ACCESSED /\ path = EMPTY_PATH
    THEN TRUE
  ELSE oracle

\* variable.getLiteralValueAtPath(path, ...): the unknown expression, an ambient
\* or imported variable and a deoptimized path answer UnknownValue, every
\* other answer is the variable's own (oracle).
UnknownValue == <<"UnknownValue">>
LiteralValue == <<"literal">>
LiteralAnswers == {UnknownValue, LiteralValue}

entityGetLiteralValueAtPath(variables, e, path, oracle) ==
  IF e = UNKNOWN_EXPRESSION THEN UnknownValue
  ELSE IF ~isLocalVariable(variables, e) THEN UnknownValue
  ELSE IF isDeoptimized(variables[e].deoptimizedPaths, path) THEN UnknownValue
  ELSE oracle

\* variable.getReturnExpressionWhenCalledAtPath(...): [expression, isPure]
entityGetReturnExpressionWhenCalledAtPath(e, path, oracle) ==
  IF e = UNKNOWN_EXPRESSION
    THEN [expression |-> UNKNOWN_EXPRESSION, isPure |-> FALSE]
    ELSE [expression |-> <<"returnValue">> \o e, isPure |-> oracle]

\* ------------------------------------------------------- call results
NoError == [code |-> "none", name |-> "", id |-> "", pos |-> 0]
TypeError == [code |-> "TypeError", name |-> "", id |-> "", pos |-> 0]
InternalError == [code |-> "Internal Error", name |-> "", id |-> "", pos |-> 0]

\* errorIllegalImportReassignment(name, importingId), raised at position pos
errorIllegalImportReassignment(name, importingId, pos) ==
  [code |-> "ILLEGAL_REASSIGNMENT", name |-> name, id |-> importingId, pos |-> pos]

NoRet ==
  [ op |-> "none", id |-> "none", path |-> <<>>, arg |-> "", oracle |-> FALSE,
    result |-> FALSE, first |-> FALSE, target |-> NoVar, err |-> NoError ]

\* ------------------------------------------------------- Identifier
\* isTDZAccess: <<>> is null, <<b>> the cached verdict b
NotCached == <<>>

\* isReference(node, parent) of the is-reference package, by parent type; the
\* identifier under a Property is its key, not computed
isReference(i) ==
  LET parentType == Node[Node[i].parent].type
  IN  parentType \notin { Property, <<"Method", "Definition">>, <<"Labeled", "Statement">>,
                          <<"Break", "Statement">>, <<"Continue", "Statement">> }

Returning(s, op, i) == [s EXCEPT !.ret = [NoRet EXCEPT !.op = op, !.id = i]]

\* the variable looked up again on every call
bind_unguarded(s, i) ==
  IF isReference(i)
    THEN LET found == findVariable(s.variables, Node[i].scope, Node[i].name)
         IN  [ Returning(s, "bind", i) EXCEPT
                 !.variable[i] = found.v,
                 !.variables = [found.variables EXCEPT ![found.v].references = Append(@, i)] ]
    ELSE Returning(s, "bind", i)

\* variable.addReference(identifier) appends to the variable's references
bind(s, i) ==
  IF s.variable[i] = NoVar /\ isReference(i)
    THEN LET found == findVariable(s.variables, Node[i].scope, Node[i].name)
         IN  [ Returning(s, "bind", i) EXCEPT
                 !.variable[i] = found.v,
                 !.variables = [found.variables EXCEPT ![found.v].references = Append(@, i)] ]
    ELSE Returning(s, "bind", i)

\* function declarations hoisted across blocks like var
declare_functionHoisted(s, i, kind) ==
  LET scope == Node[i].scope
      added ==
        CASE kind \in {"var", "function"} -> addDeclaration(s.variables, scope, i, TRUE)
          [] kind \in {"let", "const", "class"} -> addDeclaration(s.variables, scope, i, FALSE)
          [] kind = "parameter" -> addParameterDeclaration(s.variables, scope, i)
          [] OTHER -> [variables |-> s.variables, v |-> NoVar]
  IN  IF kind \notin DeclarationKinds
        THEN [s EXCEPT !.ret = [NoRet EXCEPT !.op = "declare", !.id = i, !.arg = kind,
                                             !.err = InternalError]]
        ELSE [s EXCEPT
                !.variables = [added.variables EXCEPT ![added.v].kind = kind],
                !.variable[i] = added.v,
                !.ret = [NoRet EXCEPT !.op = "declare", !.id = i, !.arg = kind,
                                      !.target = added.v]]

declare(s, i, kind) ==
  LET scope == Node[i].scope
      added ==
        CASE kind = "var" ->
               LET a == addDeclaration(s.variables, scope, i, TRUE)
               IN  IF s.treeshake.correctVarValueBeforeDeclaration
                     THEN [a EXCEPT !.variables[a.v].initsMarked = TRUE]
                     ELSE a
          [] kind = "function" -> addDeclaration(s.variables, scope, i, FALSE)
          [] kind \in {"let", "const", "class"} -> addDeclaration(s.variables, scope, i, FALSE)
          [] kind = "parameter" -> addParameterDeclaration(s.variables, scope, i)
          [] OTHER -> [variables |-> s.variables, v |-> NoVar]
  IN  IF kind \notin DeclarationKinds
        THEN [s EXCEPT !.ret = [NoRet EXCEPT !.op = "declare", !.id = i, !.arg = kind,
                                             !.err = InternalError]]
        ELSE [s EXCEPT
                !.variables = [added.variables EXCEPT ![added.v].kind = kind],
                !.variable[i] = added.v,
                !.ret = [NoRet EXCEPT !.op = "declare", !.id = i, !.arg = kind,
                                      !.target = added.v]]

\* this.context.error(errorIllegalImportReassignment(...), this.start): never returns
disallowImportReassignment(s, i) ==
  errorIllegalImportReassignment(Node[i].name, ModuleId, Node[i].start)

\* the variable is deoptimized before the reassignment check
deoptimizePath_late(s, i, path) ==
  LET r == [NoRet EXCEPT !.op = "deoptimizePath", !.id = i, !.path = path]
      s1 == IF s.variable[i] # NoVar
              THEN [s EXCEPT !.variables[s.variable[i]].deoptimizedPaths =
                               variableDeoptimizePath(@, path)]
              ELSE s
  IN  IF Len(path) = 0 /\ ~contains(s.variables, Node[i].scope, Node[i].name)
        THEN [s1 EXCEPT !.ret = [r EXCEPT !.err = disallowImportReassignment(s, i)]]
        ELSE [s1 EXCEPT !.ret = [r EXCEPT !.target = s.variable[i]]]

deoptimizePath(s, i, path) ==
  LET r == [NoRet EXCEPT !.op = "deoptimizePath", !.id = i, !.path = path]
  IN  IF Len(path) = 0 /\ ~contains(s.variables, Node[i].scope, Node[i].name)
        THEN [s EXCEPT !.ret = [r EXCEPT !.err = disallowImportReassignment(s, i)]]
        ELSE IF s.variable[i] # NoVar
               THEN [s EXCEPT !.variables[s.variable[i]].deoptimizedPaths =
                                 variableDeoptimizePath(@, path),
                              !.ret = [r EXCEPT !.target = s.variable[i]]]
               ELSE [s EXCEPT !.ret = r]

\* the deoptimized flag left unset
applyDeoptimizations_flagNotSet(s, i) ==
  IF isLocalVariable(s.variables, s.variable[i])
    THEN [s EXCEPT !.variables[s.variable[i]].consolidated = TRUE,
                   !.needsTreeshakingPass = TRUE]
    ELSE s

applyDeoptimizations(s, i) ==
  LET s1 == [s EXCEPT !.deoptimized[i] = TRUE]
  IN  IF isLocalVariable(s.variables, s.variable[i])
        THEN [s1 EXCEPT !.variables[s.variable[i]].consolidated = TRUE,
                        !.needsTreeshakingPass = TRUE]
        ELSE s1

\* the position rule without the comparison of the enclosing functions
computeTDZ_anyFunction(s, i) ==
  LET v == s.variable[i]
  IN  IF \/ ~isLocalVariable(s.variables, v)
         \/ s.variables[v].kind = NoKind
         \/ s.variables[v].kind \notin tdzVariableKinds
        THEN FALSE
      ELSE IF /\ Len(s.variables[v].declarations) = 1
              /\ Node[i].start < Node[s.variables[v].declarations[1]].start
        THEN TRUE
      ELSE IF ~s.variables[v].initReached
        THEN TRUE
      ELSE FALSE

\* the verdict computed when nothing is cached (lines 211-238)
computeTDZ(s, i) ==
  LET v == s.variable[i]
  IN  IF \/ ~isLocalVariable(s.variables, v)
         \/ s.variables[v].kind = NoKind
         \/ s.variables[v].kind \notin tdzVariableKinds
        THEN FALSE
      ELSE IF /\ Len(s.variables[v].declarations) = 1
              /\ Node[i].start < Node[s.variables[v].declarations[1]].start
              /\ closestParentFunctionOrProgram(i)
                   = closestParentFunctionOrProgram(s.variables[v].declarations[1])
        THEN TRUE
      ELSE IF ~s.variables[v].initReached
        THEN TRUE
      ELSE FALSE

\* [s |-> state after the call, r |-> returned verdict]
\* the verdict recomputed on every call
isPossibleTDZ_uncached(s, i) ==
  LET computed == computeTDZ(s, i)
  IN  [s |-> [s EXCEPT !.isTDZAccess[i] = <<computed>>, !.returned[i] = @ \cup {computed}],
       r |-> computed]

\* `returned` logs the verdicts handed out for the node
isPossibleTDZ(s, i) ==
  IF s.isTDZAccess[i] # NotCached
    THEN [s |-> [s EXCEPT !.returned[i] = @ \cup {s.isTDZAccess[i][1]}],
          r |-> s.isTDZAccess[i][1]]
    ELSE LET computed == computeTDZ(s, i)
         IN  [s |-> [s EXCEPT !.isTDZAccess[i] = <<computed>>,
                              !.returned[i] = @ \cup {computed}],
              r |-> computed]

\* the verdict used without being kept
getVariableRespectingTDZ_notKept(s, i) ==
  LET tdz == isPossibleTDZ(s, i)
  IN  IF tdz.r THEN [s |-> s, r |-> UNKNOWN_EXPRESSION]
               ELSE [s |-> s, r |-> s.variable[i]]

\* [s |-> state after the call, r |-> UNKNOWN_EXPRESSION, the variable, or null]
getVariableRespectingTDZ(s, i) ==
  LET tdz == isPossibleTDZ(s, i)
  IN  IF tdz.r THEN [s |-> tdz.s, r |-> UNKNOWN_EXPRESSION]
               ELSE [s |-> tdz.s, r |-> s.variable[i]]

\* the TDZ verdict left out of the answer
hasEffects_noTDZ(s, i) ==
  LET s1 == IF ~s.deoptimized[i] THEN applyDeoptimizations(s, i) ELSE s
      tdz == isPossibleTDZ(s1, i)
      result ==
        /\ s1.treeshake.unknownGlobalSideEffects
        /\ isGlobalVariable(s1.variables, s1.variable[i])
        /\ ~isPureFunction(s1, i, EMPTY_PATH)
  IN  [tdz.s EXCEPT !.ret = [NoRet EXCEPT !.op = "hasEffects", !.id = i, !.result = result]]

\* the unknownGlobalSideEffects option left out of the answer
hasEffects_noOption(s, i) ==
  LET s1 == IF ~s.deoptimized[i] THEN applyDeoptimizations(s, i) ELSE s
      tdz == isPossibleTDZ(s1, i)
      result ==
        IF tdz.r /\ s1.variables[s1.variable[i]].kind # "var"
          THEN TRUE
          ELSE /\ isGlobalVariable(s1.variables, s1.variable[i])
               /\ ~isPureFunction(s1, i, EMPTY_PATH)
  IN  [tdz.s EXCEPT !.ret = [NoRet EXCEPT !.op = "hasEffects", !.id = i, !.result = result]]

hasEffects(s, i) ==
  LET s1 == IF ~s.deoptimized[i] THEN applyDeoptimizations(s, i) ELSE s
      tdz == isPossibleTDZ(s1, i)
      result ==
        IF tdz.r /\ s1.variables[s1.variable[i]].kind # "var"
          THEN TRUE
          ELSE /\ s1.treeshake.unknownGlobalSideEffects
               /\ isGlobalVariable(s1.variables, s1.variable[i])
               /\ ~isPureFunction(s1, i, EMPTY_PATH)
               /\ entityHasEffectsOnInteractionAtPath(s1.variables, s1.variable[i], EMPTY_PATH,
                                                      INTERACTION_ACCESSED, FALSE)
  IN  [tdz.s EXCEPT !.ret = [NoRet EXCEPT !.op = "hasEffects", !.id = i, !.result = result]]

\* calls answered by the variable without consulting the Purity Registry
hasEffectsOnInteractionAtPath_noRegistry(s, i, path, interaction, oracle) ==
  LET r == [NoRet EXCEPT !.op = "hasEffectsOnInteractionAtPath", !.id = i, !.path = path,
                         !.arg = interaction, !.oracle = oracle]
      respecting == getVariableRespectingTDZ(s, i)
      viaTDZ ==
        IF respecting.r = NoVar
          THEN [respecting.s EXCEPT !.ret = [r EXCEPT !.err = TypeError]]
          ELSE [respecting.s EXCEPT !.ret = [r EXCEPT !.target = respecting.r, !.result =
                  entityHasEffectsOnInteractionAtPath(s.variables, respecting.r, path,
                                                      interaction, oracle)]]
  IN  IF interaction = INTERACTION_ASSIGNED /\ Len(path) = 0
        THEN IF s.variable[i] = NoVar
               THEN [s EXCEPT !.ret = [r EXCEPT !.err = TypeError]]
               ELSE [s EXCEPT !.ret = [r EXCEPT !.target = s.variable[i], !.result =
                       entityHasEffectsOnInteractionAtPath(s.variables, s.variable[i], path,
                                                           interaction, oracle)]]
        ELSE viaTDZ

hasEffectsOnInteractionAtPath(s, i, path, interaction, oracle) ==
  LET r == [NoRet EXCEPT !.op = "hasEffectsOnInteractionAtPath", !.id = i, !.path = path,
                         !.arg = interaction, !.oracle = oracle]
      respecting == getVariableRespectingTDZ(s, i)
      viaTDZ ==
        IF respecting.r = NoVar
          THEN [respecting.s EXCEPT !.ret = [r EXCEPT !.err = TypeError]]
          ELSE [respecting.s EXCEPT !.ret = [r EXCEPT !.target = respecting.r, !.result =
                  entityHasEffectsOnInteractionAtPath(s.variables, respecting.r, path,
                                                      interaction, oracle)]]
  IN  CASE interaction = INTERACTION_ACCESSED ->
             IF s.variable[i] # NoVar /\ ~isPureFunction(s, i, path)
               THEN viaTDZ
               ELSE [s EXCEPT !.ret = r]
        [] interaction = INTERACTION_ASSIGNED ->
             IF Len(path) > 0
               THEN viaTDZ
               ELSE IF s.variable[i] = NoVar
                      THEN [s EXCEPT !.ret = [r EXCEPT !.err = TypeError]]
                      ELSE [s EXCEPT !.ret = [r EXCEPT !.target = s.variable[i], !.result =
                              entityHasEffectsOnInteractionAtPath(s.variables, s.variable[i], path,
                                                                  interaction, oracle)]]
        [] interaction = INTERACTION_CALLED ->
             IF ~isPureFunction(s, i, path)
               THEN viaTDZ
               ELSE [s EXCEPT !.ret = r]

\* the returned value is in ret.target
getLiteralValueAtPath(s, i, path, oracle) ==
  LET r == [NoRet EXCEPT !.op = "getLiteralValueAtPath", !.id = i, !.path = path]
      respecting == getVariableRespectingTDZ(s, i)
  IN  IF respecting.r = NoVar
        THEN [respecting.s EXCEPT !.ret = [r EXCEPT !.err = TypeError]]
        ELSE [respecting.s EXCEPT !.ret = [r EXCEPT !.target =
                entityGetLiteralValueAtPath(s.variables, respecting.r, path, oracle)]]

\* the variable's flag returned as it is
getReturnExpressionWhenCalledAtPath_noRegistry(s, i, path, oracle) ==
  LET r == [NoRet EXCEPT !.op = "getReturnExpressionWhenCalledAtPath", !.id = i,
                         !.path = path, !.oracle = oracle]
      respecting == getVariableRespectingTDZ(s, i)
      returned == entityGetReturnExpressionWhenCalledAtPath(respecting.r, path, oracle)
  IN  IF respecting.r = NoVar
        THEN [respecting.s EXCEPT !.ret = [r EXCEPT !.err = TypeError]]
        ELSE [respecting.s EXCEPT !.ret = [r EXCEPT
                !.target = returned.expression,
                !.result = returned.isPure]]

getReturnExpressionWhenCalledAtPath(s, i, path, oracle) ==
  LET r == [NoRet EXCEPT !.op = "getReturnExpressionWhenCalledAtPath", !.id = i,
                         !.path = path, !.oracle = oracle]
      respecting == getVariableRespectingTDZ(s, i)
      returned == entityGetReturnExpressionWhenCalledAtPath(respecting.r, path, oracle)
  IN  IF respecting.r = NoVar
        THEN [respecting.s EXCEPT !.ret = [r EXCEPT !.err = TypeError]]
        ELSE [respecting.s EXCEPT !.ret = [r EXCEPT
                !.target = returned.expression,
                !.result = returned.isPure \/ isPureFunction(s, i, path)]]

\* this.context.includeVariableInModule(variable)
includeVariableInModule(s, v) ==
  [s EXCEPT !.includedVariables = @ \cup {v}]

\* inclusion of the variable skipped for a registered pure function
include_pureSkipped(s, i) ==
  LET s1 == IF ~s.deoptimized[i] THEN applyDeoptimizations(s, i) ELSE s
      s2 == IF ~s1.included[i]
              THEN LET s3 == [s1 EXCEPT !.included[i] = TRUE]
                   IN  IF s3.variable[i] # NoVar /\ ~isPureFunction(s, i, EMPTY_PATH)
                         THEN includeVariableInModule(s3, s3.variable[i])
                         ELSE s3
              ELSE s1
  IN  [s2 EXCEPT !.ret = [NoRet EXCEPT !.op = "include", !.id = i,
                                      !.target = IF s.included[i] THEN NoVar ELSE s.variable[i]]]

\* the identifier marked included without its variable being requested
include_unrequested(s, i) ==
  LET s1 == IF ~s.deoptimized[i] THEN applyDeoptimizations(s, i) ELSE s
      s2 == IF ~s1.included[i] THEN [s1 EXCEPT !.included[i] = TRUE] ELSE s1
  IN  [s2 EXCEPT !.ret = [NoRet EXCEPT !.op = "include", !.id = i,
                                      !.target = IF s.included[i] THEN NoVar ELSE s.variable[i]]]

\* applyDeoptimizations run on every inclusion call
include_alwaysApplies(s, i) ==
  LET s1 == applyDeoptimizations(s, i)
      s2 == IF ~s1.included[i]
              THEN LET s3 == [s1 EXCEPT !.included[i] = TRUE]
                   IN  IF s3.variable[i] # NoVar
                         THEN includeVariableInModule(s3, s3.variable[i])
                         ELSE s3
              ELSE s1
  IN  [s2 EXCEPT !.ret = [NoRet EXCEPT !.op = "include", !.id = i,
                                      !.target = IF s.included[i] THEN NoVar ELSE s.variable[i]]]

include(s, i) ==
  LET s1 == IF ~s.deoptimized[i] THEN applyDeoptimizations(s, i) ELSE s
      s2 == IF ~s1.included[i]
              THEN LET s3 == [s1 EXCEPT !.included[i] = TRUE]
                   IN  IF s3.variable[i] # NoVar
                         THEN includeVariableInModule(s3, s3.variable[i])
                         ELSE s3
              ELSE s1
  IN  [s2 EXCEPT !.ret = [NoRet EXCEPT !.op = "include", !.id = i,
                                      !.target = IF s.included[i] THEN NoVar ELSE s.variable[i]]]

includeCallArguments(s, i, parameters) ==
  LET r == [NoRet EXCEPT !.op = "includeCallArguments", !.id = i, !.arg = parameters]
  IN  IF s.variable[i] = NoVar
        THEN [s EXCEPT !.ret = [r EXCEPT !.err = TypeError]]
        ELSE [s EXCEPT !.includedArguments = @ \cup {<<s.variable[i], parameters>>},
                       !.ret = [r EXCEPT !.target = s.variable[i]]]

\* the flag flipped instead of set
markDeclarationReached_toggled(s, i) ==
  IF s.variable[i] = NoVar
    THEN [s EXCEPT !.ret = [NoRet EXCEPT !.op = "markDeclarationReached", !.id = i,
                                        !.err = TypeError]]
    ELSE [s EXCEPT !.variables[s.variable[i]].initReached = ~@,
                   !.ret = [NoRet EXCEPT !.op = "markDeclarationReached", !.id = i]]

markDeclarationReached(s, i) ==
  IF s.variable[i] = NoVar
    THEN [s EXCEPT !.ret = [NoRet EXCEPT !.op = "markDeclarationReached", !.id = i,
                                        !.err = TypeError]]
    ELSE [s EXCEPT !.variables[s.variable[i]].initReached = TRUE,
                   !.ret = [NoRet EXCEPT !.op = "markDeclarationReached", !.id = i]]

\* ------------------------------------------------------- the machine
\* the presets "smallest" and "safest"
TreeshakeOptions ==
  { [unknownGlobalSideEffects |-> FALSE, correctVarValueBeforeDeclaration |-> FALSE],
    [unknownGlobalSideEffects |-> TRUE, correctVarValueBeforeDeclaration |-> TRUE] }

InitialState(registry, treeshake) ==
  [ variable |-> [i \in Identifiers |-> NoVar],
    isTDZAccess |-> [i \in Identifiers |-> NotCached],
    included |-> [i \in Identifiers |-> FALSE],
    deoptimized |-> [i \in Identifiers |-> FALSE],
    variables |-> (ImportVar :> ExternalVariable("imp")),
    manualPureFunctions |-> registry,
    treeshake |-> treeshake,
    includedVariables |-> {},
    includedArguments |-> {},
    needsTreeshakingPass |-> FALSE,
    returned |-> [i \in Identifiers |-> {}],
    error |-> NoError,
    ret |-> NoRet ]

\* the Fixed-Point Driver when it is not running
NoDriver == [pc |-> "off", pass |-> 0, todo |-> {}, changed |-> FALSE]

\* watch() before it is called
NoProxy ==
  [ configs |-> <<>>, caller |-> "off", emitter |-> "none", watchInternal |-> "off",
    merged |-> <<>>, fsEvents |-> "none", rejection |-> NoError,
    watchers |-> <<>>, handled |-> <<>>, thrown |-> <<>> ]

\* the module graph before the build has read a module
NoGraph ==
  [ phase |-> "off", known |-> {}, loaded |-> {}, asked |-> "none", asserted |-> TRUE,
    importedIds |-> <<>>, dynamicallyImportedIds |-> <<>>,
    importers |-> <<>>, dynamicImporters |-> <<>> ]

\* Two builds of the same module take the same calls: st with the configured
\* Purity Registry, base with an empty one.  A run operates on one reference
\* and, when the reference names x, on the declaration sites of x.
Init ==
  \E treeshake \in TreeshakeOptions, r \in RefIds :
    /\ st = InitialState(ManualPureFunctions, treeshake)
    /\ base = InitialState(EmptyRegistry, treeshake)
    /\ ids = {r} \cup {d \in DeclIds : Node[d].name = Node[r].name}
    /\ driver = NoDriver
    /\ graph = NoGraph
    /\ proxy = NoProxy

\* A call that raised ends the run with its error; the result of a call that
\* returned is not part of the program's state.
Commit(s) ==
  IF s.ret.err # NoError
    THEN [s EXCEPT !.error = s.ret.err, !.ret = NoRet]
    ELSE [s EXCEPT !.ret = NoRet]

\* the run and the run without Purity Registry take the same call
Both(next, nextBase) ==
  /\ st.error = NoError
  /\ st' = Commit(next)
  /\ base' = IF base.error # NoError THEN base ELSE Commit(nextBase)
  /\ UNCHANGED <<ids, driver, graph, proxy>>

isDeclared(s, i) ==
  \E v \in DOMAIN s.variables :
    \E k \in 1..Len(s.variables[v].declarations) : s.variables[v].declarations[k] = i

UnexpectedKind == "using"

\* The calls made on a declaration site are declare (at construction, before
\* its bind) and markDeclarationReached; the reference of the run takes every
\* call.
ref == ids \cap RefIds

\* bind has nothing left to resolve on the identifier
bindDone(s, i) == s.variable[i] # NoVar \/ ~isReference(i)

Bind ==
  \E i \in ids :
    /\ i \in DeclIds => isDeclared(st, i)
    /\ Both(bind(st, i), bind(base, i))

\* the kinds the syntax at a declaration site can pass: d2 is a parameter of
\* f, d1 the name of a declaration statement in the block
KindsAt(i) ==
  IF Node[Node[i].parent].type = FunctionDeclaration
    THEN {"parameter"}
    ELSE (DeclarationKinds \ {"parameter"}) \cup {UnexpectedKind}

Declare ==
  \E i \in ids \cap DeclIds :
    \E kind \in KindsAt(i) :
      /\ ~isDeclared(st, i)
      /\ kind = "parameter" => <<Node[i].scope, Node[i].name>> \notin DOMAIN st.variables
      /\ Both(declare(st, i, kind), declare(base, i, kind))

DeoptimizePath ==
  \E i \in ref, path \in Paths :
    /\ bindDone(st, i)
    /\ Both(deoptimizePath(st, i, path), deoptimizePath(base, i, path))

HasEffects ==
  \E i \in ref : bindDone(st, i) /\ Both(hasEffects(st, i), hasEffects(base, i))

\* The variable's own answer reaches only the returned value, which is not
\* kept: one answer stands for both in the steps, the properties range over both.
HasEffectsOnInteractionAtPath ==
  \E i \in ref, path \in Paths, interaction \in Interactions :
    /\ bindDone(st, i)
    /\ Both(hasEffectsOnInteractionAtPath(st, i, path, interaction, TRUE),
            hasEffectsOnInteractionAtPath(base, i, path, interaction, TRUE))

GetReturnExpressionWhenCalledAtPath ==
  \E i \in ref, path \in Paths :
    /\ bindDone(st, i)
    /\ Both(getReturnExpressionWhenCalledAtPath(st, i, path, TRUE),
            getReturnExpressionWhenCalledAtPath(base, i, path, TRUE))

GetLiteralValueAtPath ==
  \E i \in ref, path \in Paths :
    /\ bindDone(st, i)
    /\ Both(getLiteralValueAtPath(st, i, path, LiteralValue),
            getLiteralValueAtPath(base, i, path, LiteralValue))

Include ==
  \E i \in ref : bindDone(st, i) /\ Both(include(st, i), include(base, i))

CallArguments == {"args"}

\* a call's callee is included before its arguments are
IncludeCallArguments ==
  \E i \in ref, parameters \in CallArguments :
    /\ st.included[i]
    /\ Both(includeCallArguments(st, i, parameters), includeCallArguments(base, i, parameters))

tdzCall(s, i) ==
  LET tdz == isPossibleTDZ(s, i)
  IN  [tdz.s EXCEPT !.ret = [NoRet EXCEPT !.op = "isPossibleTDZ", !.id = i, !.result = tdz.r,
                                         !.first = (s.isTDZAccess[i] = NotCached)]]

IsPossibleTDZ ==
  \E i \in ref : bindDone(st, i) /\ Both(tdzCall(st, i), tdzCall(base, i))

MarkDeclarationReached ==
  \E i \in ids \cap DeclIds :
    Both(markDeclarationReached(st, i), markDeclarationReached(base, i))

\* the driver starts another pass when one was requested
startPass(s) == [s EXCEPT !.needsTreeshakingPass = FALSE, !.ret = [NoRet EXCEPT !.op = "pass"]]

NewPass ==
  /\ st.needsTreeshakingPass
  /\ Both(startPass(st), startPass(base))

Next ==
  \/ Bind
  \/ Declare
  \/ DeoptimizePath
  \/ HasEffects
  \/ HasEffectsOnInteractionAtPath
  \/ GetReturnExpressionWhenCalledAtPath
  \/ GetLiteralValueAtPath
  \/ Include
  \/ IncludeCallArguments
  \/ IsPossibleTDZ
  \/ MarkDeclarationReached
  \/ NewPass

Spec == Init /\ [][Next]_vars

\* ------------------------------------------- isPureFunction on its own
\* Registries built from dotted names, queried for every identifier name and
\* every path over two segment names.
MaxQueryLen == 2

QuerySegments == {"a", "b"}
QueryPaths == SeqsUpTo(QuerySegments, MaxQueryLen)

PureNameCandidates ==
  { <<"foo">>, <<"foo", "a">>, <<"foo", "a", "b">>, <<"foo", "b", "a">>, <<"x", "b">> }

QueryRegistries == { RegistryOf(P) : P \in SUBSET PureNameCandidates }

InitPure ==
  \E registry \in QueryRegistries, r \in RefIds :
    /\ st = InitialState(registry,
                         [unknownGlobalSideEffects |-> TRUE,
                          correctVarValueBeforeDeclaration |-> TRUE])
    /\ base = InitialState(EmptyRegistry,
                           [unknownGlobalSideEffects |-> TRUE,
                            correctVarValueBeforeDeclaration |-> TRUE])
    /\ ids = {r}
    /\ driver = NoDriver
    /\ graph = NoGraph
    /\ proxy = NoProxy

pureCall(s, i, path) ==
  [s EXCEPT !.ret = [NoRet EXCEPT !.op = "isPureFunction", !.id = i, !.path = path,
                                  !.result = isPureFunction(s, i, path)]]

IsPureFunction ==
  \E i \in ids, path \in QueryPaths :
    /\ st' = pureCall(st, i, path)
    /\ base' = pureCall(base, i, path)
    /\ UNCHANGED <<ids, driver, graph, proxy>>

NextPure == IsPureFunction

SpecPure == InitPure /\ [][NextPure]_vars

\* ------------------------------------------- the Fixed-Point Driver
\* The module is parsed and bound; the driver walks it in passes.  In a pass
\* every node is visited once, in the order the walk reaches it: it is left
\* alone, asked for effects, or included (a declaration site is included and
\* marked reached).  A walk covers the declaration and one or two references.
\* After the last node another pass starts when one was
\* requested or a node was newly included, otherwise the driver is done.
MaxPasses == 12
MaxWalkedReferences == 2

DriverKinds == DeclarationKinds \ {"parameter"}

BindOrder == <<"d1", "rSame", "rNested", "rAfter", "rGlob", "rImp", "rKey">>

RECURSIVE bindAll(_, _)
bindAll(s, order) ==
  IF order = <<>> THEN s ELSE bindAll(bind(s, Head(order)), Tail(order))

InitDriver ==
  \E treeshake \in TreeshakeOptions, kind \in DriverKinds, nodes \in SUBSET RefIds :
    /\ Cardinality(nodes) \in 1..MaxWalkedReferences
    /\ st = Commit(bindAll(declare(InitialState(ManualPureFunctions, treeshake), "d1", kind),
                           BindOrder))
    /\ base = InitialState(EmptyRegistry, treeshake)
    /\ ids = nodes \cup {"d1"}
    /\ driver = [pc |-> "pass", pass |-> 1, todo |-> ids, changed |-> FALSE]
    /\ graph = NoGraph
    /\ proxy = NoProxy

visited(i) == [driver EXCEPT !.todo = @ \ {i}]

\* the nodes not yet visited that the walk reaches first
reached == {i \in driver.todo : \A j \in driver.todo : Node[i].start <= Node[j].start}

LeaveNode ==
  \E i \in reached :
    /\ driver' = visited(i)
    /\ UNCHANGED <<st, base, ids, graph, proxy>>

CheckNode ==
  \E i \in reached \cap RefIds :
    /\ st' = Commit(hasEffects(st, i))
    /\ driver' = visited(i)
    /\ UNCHANGED <<base, ids, graph, proxy>>

IncludeNode ==
  \E i \in reached :
    /\ st' = IF i \in DeclIds
               THEN Commit(markDeclarationReached(include(st, i), i))
               ELSE Commit(include(st, i))
    /\ driver' = [visited(i) EXCEPT !.changed = @ \/ ~st.included[i]]
    /\ UNCHANGED <<base, ids, graph, proxy>>

passAgain == st.needsTreeshakingPass \/ driver.changed

NextPass ==
  /\ driver.pc = "pass" /\ driver.todo = {}
  /\ passAgain
  /\ driver.pass < MaxPasses
  /\ st' = Commit(startPass(st))
  /\ driver' = [driver EXCEPT !.pass = @ + 1, !.todo = ids, !.changed = FALSE]
  /\ UNCHANGED <<base, ids, graph, proxy>>

Finish ==
  /\ driver.pc = "pass" /\ driver.todo = {}
  /\ ~passAgain
  /\ driver' = [driver EXCEPT !.pc = "done"]
  /\ UNCHANGED <<st, base, ids, graph, proxy>>

NextDriver ==
  \/ LeaveNode
  \/ CheckNode
  \/ IncludeNode
  \/ NextPass
  \/ Finish

\* the loop is synchronous code: it goes on until it returns
SpecDriver == InitDriver /\ [][NextDriver]_vars /\ WF_vars(NextDriver)

\* ------------------------------------------- module introspection
\* The build of the manualChunks test (src/unnamed/part_001): the entry
\* main.js, the modules dynamic.js and lib.js, and the id 'external' made
\* external by the options.  A module is read when the graph knows it; its
\* imports are resolved and recorded on both ends.  When every known module
\* is read the output is generated and manualChunks is called with each id.
InternalIds == {"main", "dynamic", "lib"}
ExternalIds == {"external"}
ModuleIds == InternalIds \cup ExternalIds
EntryId == "main"

\* how a module's text refers to another module
ImportForms == {"none", "static", "dynamic"}

Null == <<>>
NonNull == <<"value">>

\* the modules of the test as written: imports and default export
TestImports ==
  [ main    |-> [static |-> {"lib", "external"}, dynamic |-> {"dynamic"}],
    dynamic |-> [static |-> {"lib"},             dynamic |-> {"external"}],
    lib     |-> [static |-> {},                  dynamic |-> {}] ]

DefaultExport == [main |-> FALSE, dynamic |-> FALSE, lib |-> TRUE]

EmptyRelation == [m \in ModuleIds |-> {}]

InitInfo ==
  /\ st = InitialState(EmptyRegistry,
                       [unknownGlobalSideEffects |-> TRUE,
                        correctVarValueBeforeDeclaration |-> TRUE])
  /\ base = st
  /\ ids = {}
  /\ driver = NoDriver
  /\ graph = [ phase |-> "build", known |-> {EntryId}, loaded |-> {},
               asked |-> "none", asserted |-> TRUE,
               importedIds |-> EmptyRelation, dynamicallyImportedIds |-> EmptyRelation,
               importers |-> EmptyRelation, dynamicImporters |-> EmptyRelation ]
  /\ proxy = NoProxy

addImporters(relation, targets, importer) ==
  [m \in ModuleIds |-> IF m \in targets THEN relation[m] \cup {importer} ELSE relation[m]]

\* a known internal module is read: its static and dynamic imports are
\* resolved, recorded on the module and, as importer, on each target
LoadModule ==
  \E m \in (graph.known \cap InternalIds) \ graph.loaded :
    \E form \in [ModuleIds \ {m} -> ImportForms] :
      LET static == {t \in ModuleIds \ {m} : form[t] = "static"}
          dynamic == {t \in ModuleIds \ {m} : form[t] = "dynamic"}
      IN
      /\ graph.phase = "build"
      /\ graph' = [graph EXCEPT
                     !.loaded = @ \cup {m},
                     !.known = @ \cup static \cup dynamic,
                     !.importedIds[m] = static,
                     !.dynamicallyImportedIds[m] = dynamic,
                     !.importers = addImporters(@, static, m),
                     !.dynamicImporters = addImporters(@, dynamic, m)]
      /\ UNCHANGED <<st, base, ids, driver, proxy>>

Generate ==
  /\ graph.phase = "build"
  /\ graph.known \cap InternalIds = graph.loaded
  /\ graph' = [graph EXCEPT !.phase = "generate"]
  /\ UNCHANGED <<st, base, ids, driver, proxy>>

resolutions(g, targets) == {[id |-> t, external |-> t \in ExternalIds] : t \in targets}

\* getModuleInfo(id): null for an id the graph does not know
getModuleInfo(g, id) ==
  IF id \notin g.known THEN Null
  ELSE
    [ id |-> id,
      isExternal |-> id \in ExternalIds,
      ast |-> IF id \in ExternalIds THEN Null ELSE NonNull,
      code |-> IF id \in ExternalIds THEN Null ELSE NonNull,
      exports |-> IF id \in ExternalIds THEN Null ELSE NonNull,
      exportedBindings |-> IF id \in ExternalIds THEN Null ELSE NonNull,
      hasDefaultExport |-> IF id \in ExternalIds THEN Null ELSE <<DefaultExport[id]>>,
      isIncluded |-> IF id \in ExternalIds THEN Null ELSE <<TRUE>>,
      importedIds |-> g.importedIds[id],
      importedIdResolutions |-> resolutions(g, g.importedIds[id]),
      dynamicallyImportedIds |-> g.dynamicallyImportedIds[id],
      dynamicallyImportedIdResolutions |-> resolutions(g, g.dynamicallyImportedIds[id]),
      importers |-> g.importers[id],
      dynamicImporters |-> g.dynamicImporters[id] ]

getModuleIds(g) == g.known

\* lib.js expected without its importer main.js
ExpectedModuleInfo_importerMissing ==
  [ main |->
      [ id |-> "main", isExternal |-> FALSE, ast |-> NonNull, code |-> NonNull,
        exports |-> NonNull, exportedBindings |-> NonNull,
        hasDefaultExport |-> <<FALSE>>, isIncluded |-> <<TRUE>>,
        importedIds |-> {"lib", "external"},
        importedIdResolutions |-> { [id |-> "lib", external |-> FALSE],
                                    [id |-> "external", external |-> TRUE] },
        dynamicallyImportedIds |-> {"dynamic"},
        dynamicallyImportedIdResolutions |-> { [id |-> "dynamic", external |-> FALSE] },
        importers |-> {}, dynamicImporters |-> {} ],
    dynamic |->
      [ id |-> "dynamic", isExternal |-> FALSE, ast |-> NonNull, code |-> NonNull,
        exports |-> NonNull, exportedBindings |-> NonNull,
        hasDefaultExport |-> <<FALSE>>, isIncluded |-> <<TRUE>>,
        importedIds |-> {"lib"},
        importedIdResolutions |-> { [id |-> "lib", external |-> FALSE] },
        dynamicallyImportedIds |-> {"external"},
        dynamicallyImportedIdResolutions |-> { [id |-> "external", external |-> TRUE] },
        importers |-> {}, dynamicImporters |-> {"main"} ],
    lib |->
      [ id |-> "lib", isExternal |-> FALSE, ast |-> NonNull, code |-> NonNull,
        exports |-> NonNull, exportedBindings |-> NonNull,
        hasDefaultExport |-> <<TRUE>>, isIncluded |-> <<TRUE>>,
        importedIds |-> {}, importedIdResolutions |-> {},
        dynamicallyImportedIds |-> {}, dynamicallyImportedIdResolutions |-> {},
        importers |-> {"dynamic"}, dynamicImporters |-> {} ],
    external |->
      [ id |-> "external", isExternal |-> TRUE, ast |-> Null, code |-> Null,
        exports |-> Null, exportedBindings |-> Null,
        hasDefaultExport |-> Null, isIncluded |-> Null,
        importedIds |-> {}, importedIdResolutions |-> {},
        dynamicallyImportedIds |-> {}, dynamicallyImportedIdResolutions |-> {},
        importers |-> {"main"}, dynamicImporters |-> {"dynamic"} ] ]

\* the object the test compares getModuleInfo of every id with
ExpectedModuleInfo ==
  [ main |->
      [ id |-> "main", isExternal |-> FALSE, ast |-> NonNull, code |-> NonNull,
        exports |-> NonNull, exportedBindings |-> NonNull,
        hasDefaultExport |-> <<FALSE>>, isIncluded |-> <<TRUE>>,
        importedIds |-> {"lib", "external"},
        importedIdResolutions |-> { [id |-> "lib", external |-> FALSE],
                                    [id |-> "external", external |-> TRUE] },
        dynamicallyImportedIds |-> {"dynamic"},
        dynamicallyImportedIdResolutions |-> { [id |-> "dynamic", external |-> FALSE] },
        importers |-> {}, dynamicImporters |-> {} ],
    dynamic |->
      [ id |-> "dynamic", isExternal |-> FALSE, ast |-> NonNull, code |-> NonNull,
        exports |-> NonNull, exportedBindings |-> NonNull,
        hasDefaultExport |-> <<FALSE>>, isIncluded |-> <<TRUE>>,
        importedIds |-> {"lib"},
        importedIdResolutions |-> { [id |-> "lib", external |-> FALSE] },
        dynamicallyImportedIds |-> {"external"},
        dynamicallyImportedIdResolutions |-> { [id |-> "external", external |-> TRUE] },
        importers |-> {}, dynamicImporters |-> {"main"} ],
    lib |->
      [ id |-> "lib", isExternal |-> FALSE, ast |-> NonNull, code |-> NonNull,
        exports |-> NonNull, exportedBindings |-> NonNull,
        hasDefaultExport |-> <<TRUE>>, isIncluded |-> <<TRUE>>,
        importedIds |-> {}, importedIdResolutions |-> {},
        dynamicallyImportedIds |-> {}, dynamicallyImportedIdResolutions |-> {},
        importers |-> {"dynamic", "main"}, dynamicImporters |-> {} ],
    external |->
      [ id |-> "external", isExternal |-> TRUE, ast |-> Null, code |-> Null,
        exports |-> Null, exportedBindings |-> Null,
        hasDefaultExport |-> Null, isIncluded |-> Null,
        importedIds |-> {}, importedIdResolutions |-> {},
        dynamicallyImportedIds |-> {}, dynamicallyImportedIdResolutions |-> {},
        importers |-> {"main"}, dynamicImporters |-> {"dynamic"} ] ]

\* the graph was built from the modules of the test as written
isTestGraph(g) ==
  /\ g.loaded = InternalIds
  /\ \A m \in InternalIds :
       /\ g.importedIds[m] = TestImports[m].static
       /\ g.dynamicallyImportedIds[m] = TestImports[m].dynamic

\* assert.deepStrictEqual of the test, which holds the modules as written
deepStrictEqual(g) ==
  isTestGraph(g) =>
    /\ getModuleIds(g) = DOMAIN ExpectedModuleInfo
    /\ \A id \in getModuleIds(g) : getModuleInfo(g, id) = ExpectedModuleInfo[id]

\* manualChunks(id, { getModuleIds, getModuleInfo }), called with every id
ManualChunks ==
  \E id \in graph.known :
    /\ graph.phase = "generate"
    /\ graph.asked # id
    /\ graph' = [graph EXCEPT !.asked = id, !.asserted = @ /\ deepStrictEqual(graph)]
    /\ UNCHANGED <<st, base, ids, driver, proxy>>

NextInfo ==
  \/ LoadModule
  \/ Generate
  \/ ManualChunks

SpecInfo == InitInfo /\ [][NextInfo]_vars

\* ------------------------------------------------------- watch
\* watch(configs) of watch-proxy.ts.  watch() runs to its return statement
\* without interruption; what follows an await in watchInternal, and the
\* settling of each promise, is a job of its own that runs when no call is on
\* the stack.
MaxConfigs == 2

\* config.watch as written by the user
WatchValues == {"false", "true", "undefined", "object"}

\* watch() takes one config or an array of configs
WatchInputs ==
  { <<"config", <<w>> >> : w \in WatchValues }
    \cup { <<"array", list>> : list \in SeqsUpTo(WatchValues, MaxConfigs) }

ensureArray(items) == items[2]

\* the watch option of mergeOptions(config): false stays false, true becomes
\* an options object, an object or a missing option stays what it is
mergeOptions(w) == IF w = "true" THEN "object" ELSE w

Pending == "pending"

\* the configs filtered without the test
watchOptionsList_unfiltered(optionsList) == optionsList

\* optionsList.filter(config => config.watch !== false)
watchOptionsList(optionsList) == SelectSeq(optionsList, LAMBDA w : w # "false")

\* errorInvalidOption('watch', 'watch', ...)
errorInvalidOption(option) == [code |-> "INVALID_OPTION", name |-> option, id |-> "", pos |-> 0]

InitWatch ==
  /\ st = InitialState(EmptyRegistry,
                       [unknownGlobalSideEffects |-> TRUE,
                        correctVarValueBeforeDeclaration |-> TRUE])
  /\ base = st
  /\ ids = {}
  /\ driver = NoDriver
  /\ graph = NoGraph
  /\ \E configs \in WatchInputs :
       proxy = [NoProxy EXCEPT !.configs = configs, !.caller = "ready"]

\* no call is on the stack: a job may run
stackEmpty == proxy.caller # "running"

\* lines 10-14: the emitter is made, watchInternal runs up to its first await
\* with every mergeOptions call started, and the catch handler is attached
Watch ==
  /\ proxy.caller = "ready"
  /\ proxy' = [proxy EXCEPT
       !.caller = "running",
       !.emitter = "emitter",
       !.watchInternal = "merging",
       !.merged = [k \in 1..Len(ensureArray(proxy.configs)) |-> Pending]]
  /\ UNCHANGED <<st, base, ids, driver, graph>>

\* line 16
ReturnEmitter ==
  /\ proxy.caller = "running"
  /\ proxy' = [proxy EXCEPT !.caller = "returned"]
  /\ UNCHANGED <<st, base, ids, driver, graph>>

\* the promise of one mergeOptions(config) is fulfilled
MergeOptions ==
  \E k \in 1..Len(proxy.merged) :
    /\ stackEmpty
    /\ proxy.watchInternal = "merging"
    /\ proxy.merged[k] = Pending
    /\ proxy' = [proxy EXCEPT !.merged[k] = mergeOptions(ensureArray(proxy.configs)[k])]
    /\ UNCHANGED <<st, base, ids, driver, graph>>

allMerged(x) == \A k \in 1..Len(x.merged) : x.merged[k] # Pending

\* lines 20-31: Promise.all is fulfilled and watchInternal goes on to the
\* error or to loadFsEvents
AfterMerge ==
  /\ stackEmpty
  /\ proxy.watchInternal = "merging"
  /\ allMerged(proxy)
  /\ IF Len(watchOptionsList(proxy.merged)) = 0
       THEN proxy' = [proxy EXCEPT !.watchInternal = "rejected",
                                   !.rejection = errorInvalidOption("watch")]
       ELSE proxy' = [proxy EXCEPT !.watchInternal = "loadFsEvents"]
  /\ UNCHANGED <<st, base, ids, driver, graph>>

\* await loadFsEvents(): fsevents is there or not, the import's failure is
\* kept for later; then import('./watch') is started
LoadFsEvents ==
  \E outcome \in {"loaded", "unavailable"} :
    /\ stackEmpty
    /\ proxy.watchInternal = "loadFsEvents"
    /\ proxy' = [proxy EXCEPT !.fsEvents = outcome, !.watchInternal = "import"]
    /\ UNCHANGED <<st, base, ids, driver, graph>>

\* lines 32-33
NewWatcher ==
  /\ stackEmpty
  /\ proxy.watchInternal = "import"
  /\ proxy' = [proxy EXCEPT
       !.watchers = Append(@, [options |-> watchOptionsList(proxy.merged),
                               emitter |-> proxy.emitter]),
       !.watchInternal = "done"]
  /\ UNCHANGED <<st, base, ids, driver, graph>>

\* lines 12-14: the handler attached to watchInternal's promise
Catch ==
  /\ stackEmpty
  /\ proxy.watchInternal = "rejected"
  /\ proxy' = [proxy EXCEPT !.handled = Append(@, proxy.rejection),
                            !.watchInternal = "caught"]
  /\ UNCHANGED <<st, base, ids, driver, graph>>

NextWatch ==
  \/ Watch
  \/ ReturnEmitter
  \/ MergeOptions
  \/ AfterMerge
  \/ LoadFsEvents
  \/ NewWatcher
  \/ Catch

\* every job that is ready is run
SpecWatch == InitWatch /\ [][NextWatch]_vars /\ WF_vars(NextWatch)

\* ------------------------------------------------------------ properties
Runs == {st, base}

\* what each node's closest enclosing function or program is, read off the
\* module text
EnclosingFunction ==
  [ d1 |-> "fn", d2 |-> "fn", rSame |-> "fn", rNested |-> "inner", rAfter |-> "fn",
    rGlob |-> "prog", rImp |-> "prog", rKey |-> "prog" ]

\* the nearest enclosing function-or-module scope of each scope
FunctionScopeOf ==
  [ module |-> "module", fnScope |-> "fnScope", blkScope |-> "fnScope",
    innerScope |-> "innerScope" ]

\* C1: every verdict isPossibleTDZ hands out for a node, under any
\* interleaving of the other calls, is the verdict it handed out first.
C1_VerdictNeverChanges ==
  \A s \in Runs : \A i \in Identifiers : Cardinality(s.returned[i]) <= 1

\* a verdict was handed out and computing it afresh now would give the other one
C1_Witness ==
  \E i \in ref :
    /\ st.returned[i] # {}
    /\ computeTDZ(st, i) \notin st.returned[i]

\* the verdict of the claim: TDZ kind, and declared later in the same function
\* or initialisation not reached
C2_Verdict(s, i) ==
  LET v == s.variable[i]
  IN  /\ v # NoVar
      /\ s.variables[v].cls \in {"local", "parameter"}
      /\ s.variables[v].kind \in {"let", "const", "class", "var"}
      /\ \/ /\ Len(s.variables[v].declarations) = 1
            /\ Node[i].start < Node[s.variables[v].declarations[1]].start
            /\ EnclosingFunction[i] = EnclosingFunction[s.variables[v].declarations[1]]
         \/ ~s.variables[v].initReached

\* C2: the verdict of a first call of isPossibleTDZ is (local variable of kind
\* let, const, class or var) and (single declaration site later in the same
\* function or program, or initReached false); it is false for globals and for
\* the kinds parameter and function.
C2_FirstVerdict ==
  \A s \in Runs : \A i \in ref :
    s.isTDZAccess[i] = NotCached =>
      LET first == isPossibleTDZ(s, i)
      IN  /\ first.r = C2_Verdict(s, i)
          /\ first.s.isTDZAccess[i] = <<first.r>>
          /\ ( \/ isGlobalVariable(s.variables, s.variable[i])
               \/ s.variable[i] # NoVar
                    /\ s.variables[s.variable[i]].kind \in {"parameter", "function"} )
               => ~first.r

\* a first call flagged a reference by its position although the declaration
\* had been reached
C2_Witness ==
  \E i \in ref :
    /\ st.isTDZAccess[i] = <<TRUE>>
    /\ st.variables[st.variable[i]].initReached
    /\ C2_Verdict(st, i)

\* reference i resolved to a const with one declaration site that lies behind it
constDeclaredLater(s, i) ==
  /\ s.variable[i] # NoVar
  /\ s.variables[s.variable[i]].cls = "local"
  /\ s.variables[s.variable[i]].kind = "const"
  /\ Len(s.variables[s.variable[i]].declarations) = 1
  /\ Node[i].start < Node[s.variables[s.variable[i]].declarations[1]].start

sameFunction(s, i) ==
  EnclosingFunction[i] = EnclosingFunction[s.variables[s.variable[i]].declarations[1]]

\* C3 as stated: a reference ahead of the single declaration of a const is
\* flagged in the same function, and not flagged in a nested function, whenever
\* the verdict is first computed.
C3_NestedNeverFlagged ==
  \A s \in Runs : \A i \in ref :
    (s.isTDZAccess[i] = NotCached /\ constDeclaredLater(s, i)) =>
      isPossibleTDZ(s, i).r = sameFunction(s, i)

\* C3 amended: a reference ahead of the single declaration of a const is
\* flagged in the same function; in a nested function it is flagged exactly
\* when the declaration has not been reached at the first computation.
C3_NestedFlaggedUntilReached ==
  \A s \in Runs : \A i \in ref :
    (s.isTDZAccess[i] = NotCached /\ constDeclaredLater(s, i)) =>
      isPossibleTDZ(s, i).r =
        (sameFunction(s, i) \/ ~s.variables[s.variable[i]].initReached)

\* the nested reference got its verdict after the declaration was reached
C3_Witness ==
  /\ "rNested" \in ids
  /\ constDeclaredLater(st, "rNested")
  /\ st.variables[st.variable["rNested"]].initReached
  /\ st.isTDZAccess["rNested"] = <<FALSE>>

kindOf(s, i) == s.variables[s.variable[i]].kind

\* C4 as stated: a positive TDZ verdict makes hasEffects true for every TDZ
\* kind, var included.
C4_TDZAlwaysAnEffect ==
  \A s \in Runs : \A i \in ref :
    isPossibleTDZ(s, i).r => hasEffects(s, i).ret.result

\* C4 amended: with a positive TDZ verdict hasEffects is true for the kinds
\* let, const and class, whatever the options and the registry; for the kind
\* var the verdict adds no effect and hasEffects is false.
C4_TDZAnEffectUnlessVar ==
  \A s \in Runs : \A i \in ref :
    isPossibleTDZ(s, i).r => (hasEffects(s, i).ret.result = (kindOf(s, i) # "var"))

\* hasEffects has run on a var reference whose verdict is positive
C4_Witness ==
  \E i \in ref :
    /\ st.isTDZAccess[i] = <<TRUE>>
    /\ kindOf(st, i) = "var"
    /\ st.deoptimized[i] /\ ~st.included[i]
    /\ ~hasEffects(st, i).ret.result

\* the registry object reached from the identifier's name through path
registryKey(i, path) == <<Node[i].name>> \o path

\* C5 as stated: isPureFunction(path) is true exactly when the entry at the
\* exact path exists and is flagged pure.
C5_PureExactlyAtPath ==
  st.ret.op = "isPureFunction" =>
    st.ret.result =
      ( /\ registryKey(st.ret.id, st.ret.path) \in st.manualPureFunctions.nodes
        /\ registryKey(st.ret.id, st.ret.path) \in st.manualPureFunctions.pure )

\* C5 amended: isPureFunction(path) is true exactly when the entry at path or
\* at a prefix of path exists and is flagged pure; segments behind a pure
\* prefix need not be mirrored.
C5_PureAtPathOrPrefix ==
  st.ret.op = "isPureFunction" =>
    st.ret.result =
      \E k \in 0..Len(st.ret.path) :
        registryKey(st.ret.id, Prefix(st.ret.path, k)) \in st.manualPureFunctions.pure

\* a path was answered pure through a pure prefix, its last segment not mirrored
C5_Witness ==
  /\ st.ret.op = "isPureFunction"
  /\ st.ret.result
  /\ registryKey(st.ret.id, st.ret.path) \notin st.manualPureFunctions.nodes

pureAt(s, i, path) == registryKey(i, path) \in s.manualPureFunctions.pure

withoutRegistry(s) == [s EXCEPT !.manualPureFunctions = EmptyRegistry]

interact(s, i, path, interaction, oracle) ==
  hasEffectsOnInteractionAtPath(s, i, path, interaction, oracle).ret

pureSuppressesCallAndAccess(s, i, path, oracle) ==
  pureAt(s, i, path) =>
    LET called == interact(s, i, path, INTERACTION_CALLED, oracle)
        accessed == interact(s, i, path, INTERACTION_ACCESSED, oracle)
    IN  /\ ~called.result /\ called.err = NoError
        /\ ~accessed.result /\ accessed.err = NoError

\* C6 as stated: a name registered pure at P has no effect when called or
\* accessed at P; an assignment is answered by the variable.
C6_AssignedAnsweredByVariable ==
  \A s \in Runs : \A i \in ref : \A path \in Paths : \A oracle \in BOOLEAN :
    /\ pureSuppressesCallAndAccess(s, i, path, oracle)
    /\ s.variable[i] # NoVar =>
         LET assigned == interact(s, i, path, INTERACTION_ASSIGNED, oracle)
         IN  /\ assigned.err = NoError
             /\ assigned.result =
                  entityHasEffectsOnInteractionAtPath(s.variables, s.variable[i], path,
                                                      INTERACTION_ASSIGNED, oracle)

\* C6 amended: a name registered pure at P has no effect when called or
\* accessed at P; an assignment through a resolved identifier is answered as
\* without registry, by the variable, except that at a non-empty path with a
\* positive TDZ verdict the answer is true.
C6_AssignedAnsweredRespectingTDZ ==
  \A s \in Runs : \A i \in ref : \A path \in Paths : \A oracle \in BOOLEAN :
    /\ pureSuppressesCallAndAccess(s, i, path, oracle)
    /\ s.variable[i] # NoVar =>
         LET assigned == interact(s, i, path, INTERACTION_ASSIGNED, oracle)
         IN  /\ assigned.err = NoError
             /\ assigned = interact(withoutRegistry(s), i, path, INTERACTION_ASSIGNED, oracle)
             /\ assigned.result =
                  IF Len(path) > 0 /\ isPossibleTDZ(s, i).r
                    THEN TRUE
                    ELSE entityHasEffectsOnInteractionAtPath(s.variables, s.variable[i], path,
                                                             INTERACTION_ASSIGNED, oracle)

\* a reference with a positive verdict whose name is registered pure at a path
C6_Witness ==
  \E i \in ref : \E path \in Paths :
    /\ pureAt(st, i, path)
    /\ Len(path) > 0
    /\ st.isTDZAccess[i] = <<TRUE>>
    /\ ~interact(st, i, path, INTERACTION_CALLED, TRUE).result
    /\ interact(st, i, path, INTERACTION_ASSIGNED, FALSE).result

bothRunning == st.error = NoError /\ base.error = NoError

C7_SameInclusion ==
  bothRunning =>
    /\ st.included = base.included
    /\ st.includedVariables = base.includedVariables
    /\ st.includedArguments = base.includedArguments
    /\ \A i \in ref :
         /\ include(st, i).ret = include(base, i).ret
         /\ include(st, i).includedVariables = include(base, i).includedVariables
         /\ \A parameters \in CallArguments :
              includeCallArguments(st, i, parameters).ret
                = includeCallArguments(base, i, parameters).ret

C7_RegistryNotWritten ==
  /\ st'.manualPureFunctions = st.manualPureFunctions
  /\ base'.manualPureFunctions = base.manualPureFunctions

\* C7: the build with the Purity Registry and the build without it, taking the
\* same calls, include the same identifiers, request inclusion of the same
\* variables and delegate the same call arguments to the same variables; no
\* call changes the registry.
C7_RegistryNeverSuppressesInclusion ==
  [](C7_SameInclusion) /\ [][C7_RegistryNotWritten]_vars

\* a reference whose name is registered pure has been included with its variable
C7_Witness ==
  \E i \in ref :
    /\ pureAt(st, i, EMPTY_PATH)
    /\ st.included[i]
    /\ st.variable[i] \in st.includedVariables
    /\ <<st.variable[i], "args">> \in st.includedArguments

\* C8: on an identifier resolved to a global variable hasEffects is true when
\* unknownGlobalSideEffects is on and the name is not registered pure at the
\* empty path, and false otherwise.
C8_GlobalSideEffects ==
  \A s \in Runs : \A i \in ref :
    isGlobalVariable(s.variables, s.variable[i]) =>
      hasEffects(s, i).ret.result =
        (s.treeshake.unknownGlobalSideEffects /\ ~pureAt(s, i, EMPTY_PATH))

\* hasEffects has run on a global reference: flagged without registry, not
\* flagged with the name registered pure
C8_Witness ==
  \E i \in ref :
    /\ isGlobalVariable(st.variables, st.variable[i])
    /\ st.deoptimized[i] /\ ~st.included[i]
    /\ ~hasEffects(st, i).ret.result
    /\ hasEffects(base, i).ret.result

\* C9: deoptimizePath with the empty path on a name its scope does not contain
\* raises the illegal reassignment error with the name, the module id and the
\* start position, and leaves the variables as they were; every other call
\* raises nothing and the path is deoptimized on the resolved variable.
C9_ImportReassignment ==
  \A s \in Runs : \A i \in ref : \A path \in Paths :
    LET out == deoptimizePath(s, i, path)
    IN  IF path = <<>> /\ ~contains(s.variables, Node[i].scope, Node[i].name)
          THEN /\ out.ret.err = [code |-> "ILLEGAL_REASSIGNMENT", name |-> Node[i].name,
                                 id |-> ModuleId, pos |-> Node[i].start]
               /\ out.variables = s.variables
          ELSE /\ out.ret.err = NoError
               /\ s.variable[i] # NoVar =>
                    isDeoptimized(out.variables[s.variable[i]].deoptimizedPaths, path)

\* the build failed on the reassignment of the resolved import
C9_Witness ==
  /\ st.error.code = "ILLEGAL_REASSIGNMENT"
  /\ st.error.name = "imp"
  /\ st.variable["rImp"] = ImportVar
  /\ st.variables[ImportVar].deoptimizedPaths = {<<"a">>}

declaredAs(s, i, kind, scope) ==
  LET out == declare(s, i, kind)
  IN  /\ out.variable[i] = <<scope, Node[i].name>>
      /\ out.variable[i] \in DOMAIN out.variables
      /\ out.variables[out.variable[i]].kind = kind
      /\ out.variables[out.variable[i]].declarations[Len(out.variables[out.variable[i]].declarations)] = i
      /\ out.ret.err = NoError

canDeclare(s, i, kind) ==
  /\ ~isDeclared(s, i)
  /\ kind = "parameter" => <<Node[i].scope, Node[i].name>> \notin DOMAIN s.variables

\* C10 as stated: var and function are registered in the nearest enclosing
\* function-or-module scope, let, const and class in the innermost scope,
\* parameter in the function scope.
C10_FunctionHoisted ==
  \A s \in Runs : \A i \in ids \cap DeclIds : \A kind \in KindsAt(i) \cap DeclarationKinds :
    canDeclare(s, i, kind) =>
      declaredAs(s, i, kind,
                 IF kind \in {"var", "function"} THEN FunctionScopeOf[Node[i].scope]
                                                  ELSE Node[i].scope)

\* C10 amended: only var is registered in the nearest enclosing
\* function-or-module scope; function, let, const and class are registered in
\* the innermost scope, parameter in the function scope.
C10_OnlyVarHoisted ==
  \A s \in Runs : \A i \in ids \cap DeclIds : \A kind \in KindsAt(i) \cap DeclarationKinds :
    canDeclare(s, i, kind) =>
      declaredAs(s, i, kind,
                 IF kind = "var" THEN FunctionScopeOf[Node[i].scope] ELSE Node[i].scope)

\* both a function declared in the block and the parameter have been declared
C10_Witness ==
  /\ st.variable["d1"] = <<"blkScope", "x">>
  /\ kindOf(st, "d1") = "function"
  /\ st.variable["d2"] = <<"fnScope", "x">>
  /\ kindOf(st, "d2") = "parameter"

resolved(s, i) == s.variable[i] # NoVar

literal(s, i, path, oracle) == getLiteralValueAtPath(s, i, path, oracle).ret

answeredUnknown(s, i, path) ==
  \A oracle \in LiteralAnswers :
    /\ literal(s, i, path, oracle).err = NoError
    /\ literal(s, i, path, oracle).target = UnknownValue

\* the identifier's variable holds a deoptimized path that covers path
covered(s, i, path) ==
  /\ resolved(s, i)
  /\ isDeoptimized(s.variables[s.variable[i]].deoptimizedPaths, path)

\* C11: once deoptimizePath(P) has completed on an identifier, a later
\* getLiteralValueAtPath(Q), Q equal to P or an extension of it, returns
\* unknown; an identifier whose TDZ verdict is positive returns unknown at
\* every path.
C11_DeoptimizedAlwaysUnknown ==
  \A s \in Runs : \A i \in ref :
    (s.error = NoError /\ bindDone(s, i)) =>
      /\ \A P \in Paths : \A Q \in Paths :
           LET out == deoptimizePath(s, i, P)
           IN  (out.ret.err = NoError /\ isPrefix(P, Q)) => answeredUnknown(out, i, Q)
      /\ isPossibleTDZ(s, i).r => \A Q \in Paths : answeredUnknown(s, i, Q)

C11_UnknownWhereCovered ==
  \A s \in Runs : \A i \in ref :
    /\ \A P \in Paths : \A Q \in Paths :
         LET out == deoptimizePath(s, i, P)
         IN  (resolved(s, i) /\ out.ret.err = NoError /\ isPrefix(P, Q)) =>
               /\ covered(out, i, Q)
               /\ answeredUnknown(out, i, Q)
    /\ \A Q \in Paths : covered(s, i, Q) => answeredUnknown(s, i, Q)
    /\ isPossibleTDZ(s, i).r => \A Q \in Paths : answeredUnknown(s, i, Q)

C11_CoverKept ==
  \A i \in ref : \A Q \in Paths :
    /\ covered(st, i, Q) => (covered(st', i, Q) /\ st'.variable[i] = st.variable[i])
    /\ covered(base, i, Q) => (covered(base', i, Q) /\ base'.variable[i] = base.variable[i])

\* C11 on the identifiers with a resolved variable: once deoptimizePath(P) has
\* completed the variable covers P and its extensions in every later state,
\* whatever is called, and getLiteralValueAtPath returns unknown at every
\* covered path and, with a positive TDZ verdict, at every path.
C11_ResolvedDeoptimizedAlwaysUnknown ==
  [](C11_UnknownWhereCovered) /\ [][C11_CoverKept]_vars

\* the inclusion and deoptimization flags of the walked nodes that are set
flagsSet(s) ==
  Cardinality({i \in ids : s.included[i]}) + Cardinality({i \in ids : s.deoptimized[i]})

C12_PassesBounded ==
  /\ driver.pass <= 1 + flagsSet(st)
  /\ flagsSet(st) <= 2 * Cardinality(ids)

\* flags only rise, and a pass is requested only by a node whose deoptimized
\* flag rises in the same call
C12_FlagsOnlyRise ==
  /\ \A i \in ids :
       /\ st.included[i] => st'.included[i]
       /\ st.deoptimized[i] => st'.deoptimized[i]
  /\ (st'.needsTreeshakingPass /\ ~st.needsTreeshakingPass) =>
       \E i \in ids : ~st.deoptimized[i] /\ st'.deoptimized[i]

\* C12: the loop that repeats while a pass was requested or a node was newly
\* included comes to its end; the number of passes is at most one more than
\* the number of flags set, each node's inclusion and deoptimization flags
\* only go from false to true, and a node requests a pass at most once.
C12_DriverTerminates ==
  /\ <>(driver.pc = "done")
  /\ [](C12_PassesBounded)
  /\ [][C12_FlagsOnlyRise]_vars

\* the driver came to its end after one pass for every flag of two nodes
C12_Witness ==
  /\ driver.pc = "done"
  /\ driver.pass >= 5
  /\ ~st.needsTreeshakingPass

info(id) == getModuleInfo(graph, id)

C13_Inverse ==
  \A a \in getModuleIds(graph) : \A b \in getModuleIds(graph) :
    /\ (b \in info(a).importedIds) = (a \in info(b).importers)
    /\ (b \in info(a).dynamicallyImportedIds) = (a \in info(b).dynamicImporters)

C13_Resolutions ==
  \A a \in getModuleIds(graph) :
    /\ info(a).importedIds \subseteq getModuleIds(graph)
    /\ info(a).dynamicallyImportedIds \subseteq getModuleIds(graph)
    /\ {r.id : r \in info(a).importedIdResolutions} = info(a).importedIds
    /\ {r.id : r \in info(a).dynamicallyImportedIdResolutions} = info(a).dynamicallyImportedIds
    /\ \A r \in info(a).importedIdResolutions \cup info(a).dynamicallyImportedIdResolutions :
         r.external = info(r.id).isExternal

C13_ExternalNull ==
  \A a \in getModuleIds(graph) :
    LET nullable == { info(a).ast, info(a).code, info(a).exports, info(a).exportedBindings,
                      info(a).hasDefaultExport, info(a).isIncluded }
    IN  IF info(a).isExternal THEN nullable = {Null} ELSE Null \notin nullable

consolidatedVariables(s) == {v \in DOMAIN s.variables : s.variables[v].consolidated}

boundToLocal(s, i) == isLocalVariable(s.variables, s.variable[i])

\* C14 as stated: on an identifier bound to a local variable the
\* consolidation and the pass request occur at the first inclusion.
C14_ConsolidatedAtFirstInclusion ==
  \A s \in Runs : \A i \in ref :
    (s.error = NoError /\ boundToLocal(s, i) /\ ~s.included[i]) =>
      /\ s.variable[i] \notin consolidatedVariables(s)
      /\ s.variable[i] \in consolidatedVariables(include(s, i))
      /\ include(s, i).needsTreeshakingPass

\* the call out leaves of state s consolidates and requests a pass exactly as
\* a first call on an identifier bound to a local variable
consolidatesOnce(s, i, out) ==
  /\ out.deoptimized[i]
  /\ IF ~s.deoptimized[i] /\ boundToLocal(s, i)
       THEN /\ consolidatedVariables(out) = consolidatedVariables(s) \cup {s.variable[i]}
            /\ out.needsTreeshakingPass
       ELSE /\ consolidatedVariables(out) = consolidatedVariables(s)
            /\ out.needsTreeshakingPass = s.needsTreeshakingPass

C14_FirstCallConsolidates ==
  \A s \in Runs : \A i \in ref :
    /\ consolidatesOnce(s, i, hasEffects(s, i))
    /\ consolidatesOnce(s, i, include(s, i))

C14_OnlyAtAFirstCall ==
  /\ \A i \in ref : st.deoptimized[i] => st'.deoptimized[i]
  /\ ( \/ consolidatedVariables(st') # consolidatedVariables(st)
       \/ st'.needsTreeshakingPass /\ ~st.needsTreeshakingPass )
       => \E i \in ref : /\ ~st.deoptimized[i] /\ st'.deoptimized[i]
                          /\ boundToLocal(st, i)
                          /\ st.variable[i] \in consolidatedVariables(st')
                          /\ st'.needsTreeshakingPass

\* C14 amended: the consolidation of the variable's initializers and the
\* request for a pass occur at the first call of hasEffects or include on the
\* identifier, whichever comes first, when the identifier is bound to a local
\* variable at that call; they occur at most once per identifier over any
\* sequence of calls and passes; an identifier bound to a global or imported
\* variable or to none at that call consolidates nothing and requests nothing.
C14_ConsolidatedAtFirstCall ==
  [](C14_FirstCallConsolidates) /\ [][C14_OnlyAtAFirstCall]_vars

\* hasEffects consolidated in an earlier pass; the first inclusion, still to
\* come, requests nothing
C14_Witness ==
  \E i \in ref :
    /\ boundToLocal(st, i)
    /\ st.deoptimized[i] /\ ~st.included[i]
    /\ st.variable[i] \in consolidatedVariables(st)
    /\ ~st.needsTreeshakingPass
    /\ ~include(st, i).needsTreeshakingPass

requested(s, i) == s.variable[i] \in s.includedVariables

C15_RequestedAtFirstInclusion ==
  \A s \in Runs : \A i \in ref :
    /\ (s.included[i] /\ resolved(s, i)) => requested(s, i)
    /\ bindDone(s, i) =>
         LET out == include(s, i)
         IN  /\ out.included[i]
             /\ IF ~s.included[i] /\ resolved(s, i)
                  THEN /\ out.ret.target = s.variable[i]
                       /\ out.includedVariables = s.includedVariables \cup {s.variable[i]}
                  ELSE /\ out.ret.target = NoVar
                       /\ out.includedVariables = s.includedVariables

C15_IncludedStays ==
  /\ \A i \in ref :
       /\ (st.included[i] => st'.included[i])
       /\ (base.included[i] => base'.included[i])
  /\ st.includedVariables \subseteq st'.includedVariables
  /\ base.includedVariables \subseteq base'.includedVariables

RECURSIVE ScopeChain(_)
ScopeChain(scope) ==
  IF scope = "none" THEN <<>> ELSE <<scope>> \o ScopeChain(ScopeParent[scope])

\* the variable a name is looked up to: the one of the innermost scope that
\* holds the name, else the import of that name, else the ambient variable
lookup(s, i) ==
  LET chain == ScopeChain(Node[i].scope)
      holding == {k \in 1..Len(chain) : <<chain[k], Node[i].name>> \in DOMAIN s.variables}
  IN  IF holding # {}
        THEN <<chain[CHOOSE k \in holding : \A l \in holding : k <= l], Node[i].name>>
        ELSE IF Node[i].name = ImportVar[2] THEN ImportVar ELSE <<"global", Node[i].name>>

\* how often identifier i is registered as a reference on variable v
registrations(s, v, i) ==
  Cardinality({k \in 1..Len(s.variables[v].references) : s.variables[v].references[k] = i})

referencesOf(s) == [v \in DOMAIN s.variables |-> s.variables[v].references]

C16_BindResolvesOnce ==
  \A s \in Runs : \A i \in ids :
    /\ \A v \in DOMAIN s.variables :
         registrations(s, v, i) = IF i \in ref /\ s.variable[i] = v THEN 1 ELSE 0
    /\ (i \in DeclIds => isDeclared(s, i)) =>
         LET out == bind(s, i)
         IN  IF i \in ref /\ isReference(i) /\ ~resolved(s, i)
               THEN /\ out.variable[i] = lookup(s, i)
                    /\ registrations(out, out.variable[i], i) = 1
                    /\ \A v \in DOMAIN s.variables :
                         v # out.variable[i] => out.variables[v] = s.variables[v]
               ELSE /\ out.variable = s.variable
                    /\ out.variables = s.variables

C16_VariableKept ==
  \A i \in ids :
    /\ resolved(st, i) => st'.variable[i] = st.variable[i]
    /\ resolved(base, i) => base'.variable[i] = base.variable[i]
    /\ (~isReference(i) /\ i \in ref) => ~resolved(st', i)

\* C16: the first bind() of a reference sets its variable by scope lookup and
\* registers the identifier on that variable once; the variable of a resolved
\* identifier never changes and no later bind() changes it or any reference
\* list; bind() on a declared declaration-site name or on a property key
\* resolves nothing and registers nothing.
C16_ResolvedOnceForAll ==
  [](C16_BindResolvesOnce) /\ [][C16_VariableKept]_vars

\* a reference resolved to the variable declared in its block, registered on
\* it once, since then included and asked again in a new pass
C16_Witness ==
  /\ "rAfter" \in ids
  /\ st.variable["rAfter"] = <<"blkScope", "x">>
  /\ st.variable["d1"] = <<"blkScope", "x">>
  /\ st.variables[<<"blkScope", "x">>].references = <<"rAfter">>
  /\ st.included["rAfter"] /\ ~st.needsTreeshakingPass
  /\ bind(st, "rAfter").variables = st.variables
  /\ bind(st, "d1").variables = st.variables

reachedVariables(s) == {v \in DOMAIN s.variables : s.variables[v].initReached}

C17_SetByMarkDeclarationReached ==
  \A s \in Runs : \A i \in ids \cap DeclIds :
    isDeclared(s, i) =>
      reachedVariables(markDeclarationReached(s, i)) = reachedVariables(s) \cup {s.variable[i]}

\* between two states of a run initReached rises only on the variable of a
\* declaring identifier, by markDeclarationReached, and never falls
initReachedStep(s, t) ==
  /\ reachedVariables(s) \subseteq reachedVariables(t)
  /\ DOMAIN s.variables \subseteq DOMAIN t.variables
  /\ \A v \in reachedVariables(t) \ reachedVariables(s) :
       \E i \in ids \cap DeclIds :
         /\ isDeclared(s, i) /\ s.variable[i] = v
         /\ t = Commit(markDeclarationReached(s, i))

C17_NeverReset ==
  initReachedStep(st, st') /\ initReachedStep(base, base')

\* C17: a variable's initReached is false until markDeclarationReached is
\* called on a declaring identifier of the variable, true afterwards, and no
\* call (markDeclarationReached again, declare, deoptimizePath, include, a new
\* pass, any query) sets it back to false.
C17_InitReachedOnce ==
  [](C17_SetByMarkDeclarationReached) /\ [][C17_NeverReset]_vars

\* the declaration was reached after the reference got its positive verdict;
\* the reference has since been included and a new pass has started
C17_Witness ==
  \E i \in ref :
    /\ boundToLocal(st, i)
    /\ st.variable[i] \in reachedVariables(st)
    /\ st.isTDZAccess[i] = <<TRUE>>
    /\ st.included[i] /\ ~st.needsTreeshakingPass
    /\ Len(st.variables[st.variable[i]].declarations) = 2

\* C18 as stated: the run and the run without the Purity Registry, having
\* taken the same calls, get the same isPure flag and the same expression from
\* getReturnExpressionWhenCalledAtPath.
C18_RegistryIndependent ==
  bothRunning =>
    \A i \in ref, path \in Paths, oracle \in BOOLEAN :
      bindDone(st, i) =>
        LET with == getReturnExpressionWhenCalledAtPath(st, i, path, oracle).ret
            without == getReturnExpressionWhenCalledAtPath(base, i, path, oracle).ret
        IN  with.result = without.result /\ with.target = without.target

\* C18 amended: on one identifier state the returned expression, the outcome
\* and the state left behind are the same with and without the Purity
\* Registry, and the returned isPure flag is the variable's flag or the
\* registry's: true whenever the name is registered pure at path or at a prefix.
C18_PureByVariableOrRegistry ==
  \A s \in Runs : \A i \in ref, path \in Paths, oracle \in BOOLEAN :
    bindDone(s, i) =>
      LET with == getReturnExpressionWhenCalledAtPath(s, i, path, oracle)
          without == getReturnExpressionWhenCalledAtPath(withoutRegistry(s), i, path, oracle)
      IN  /\ with.ret.target = without.ret.target
          /\ with.ret.err = without.ret.err
          /\ withoutRegistry(Commit(with)) = Commit(without)
          /\ with.ret.err = NoError =>
                with.ret.result = (without.ret.result \/ isPureFunction(s, i, path))

\* a resolved reference whose variable does not answer pure is answered pure
\* through the registry
C18_Witness ==
  \E i \in ref, path \in Paths :
    /\ boundToLocal(st, i)
    /\ st.error = NoError
    /\ isPureFunction(st, i, path)
    /\ getReturnExpressionWhenCalledAtPath(st, i, path, FALSE).ret.target # UNKNOWN_EXPRESSION
    /\ getReturnExpressionWhenCalledAtPath(st, i, path, FALSE).ret.result
    /\ ~getReturnExpressionWhenCalledAtPath(withoutRegistry(st), i, path, FALSE).ret.result

\* the three queries on node i in state s: the state each leaves (result
\* dropped) and whether its code reaches getVariableRespectingTDZ
queriesOn(s, i) ==
  { [ after |-> hasEffectsOnInteractionAtPath(s, i, path, interaction, oracle),
      consultsTDZ |->
        CASE interaction = INTERACTION_ACCESSED ->
               s.variable[i] # NoVar /\ ~isPureFunction(s, i, path)
          [] interaction = INTERACTION_ASSIGNED -> Len(path) > 0
          [] interaction = INTERACTION_CALLED -> ~isPureFunction(s, i, path) ]
      : path \in Paths, interaction \in Interactions, oracle \in BOOLEAN }
  \cup
  { [ after |-> getLiteralValueAtPath(s, i, path, oracle), consultsTDZ |-> TRUE ]
      : path \in Paths, oracle \in LiteralAnswers }
  \cup
  { [ after |-> getReturnExpressionWhenCalledAtPath(s, i, path, oracle), consultsTDZ |-> TRUE ]
      : path \in Paths, oracle \in BOOLEAN }

\* the state without the result of the last call and without the log of
\* verdicts, which is not the program's
programState(s) == [s EXCEPT !.ret = NoRet, !.returned = [j \in DOMAIN s.returned |-> {}]]

\* C19 as stated, on resolved identifiers: a query leaves every piece of
\* identifier state as it was, the memoised TDZ verdict included.
C19_QueriesPure ==
  \A s \in Runs : \A i \in ref :
    resolved(s, i) =>
      \A q \in queriesOn(s, i) : programState(q.after) = programState(s)

\* C19 amended: a query leaves variable, included, deoptimized, the variables
\* and the inclusion requests as they were; the one thing it may write is the
\* node's memoised TDZ verdict, which it computes and keeps when it is absent
\* and the query goes through getVariableRespectingTDZ (every query but an
\* assignment to the empty path, an access of an unresolved or registry-pure
\* name, a call of a registry-pure name); a verdict already kept stays.
C19_QueriesWriteOnlyTheMemo ==
  \A s \in Runs : \A i \in ref :
    bindDone(s, i) =>
      \A q \in queriesOn(s, i) :
        /\ programState([q.after EXCEPT !.isTDZAccess = s.isTDZAccess]) = programState(s)
        /\ q.after.isTDZAccess =
             IF q.consultsTDZ /\ s.isTDZAccess[i] = NotCached
               THEN [s.isTDZAccess EXCEPT ![i] = <<computeTDZ(s, i)>>]
               ELSE s.isTDZAccess

\* a query made before the declaration is reached changes what isPossibleTDZ
\* and hasEffects answer after it is reached
C19_Witness ==
  \E i \in ref, d \in ids \cap DeclIds :
    /\ st.error = NoError
    /\ boundToLocal(st, i) /\ isDeclared(st, d) /\ st.variable[d] = st.variable[i]
    /\ st.isTDZAccess[i] = NotCached
    /\ LET queried == Commit(getLiteralValueAtPath(st, i, EMPTY_PATH, LiteralValue))
           after == Commit(markDeclarationReached(queried, d))
           plain == Commit(markDeclarationReached(st, d))
       IN  /\ queried.isTDZAccess[i] = <<TRUE>>
           /\ isPossibleTDZ(after, i).r /\ ~isPossibleTDZ(plain, i).r
           /\ hasEffects(after, i).ret.result /\ ~hasEffects(plain, i).ret.result

\* C20: on an identifier whose variable is null every query returns the
\* conservative answer and none raises: hasEffectsOnInteractionAtPath answers
\* true for accessed, called and assigned, getLiteralValueAtPath answers
\* unknown, getReturnExpressionWhenCalledAtPath answers the unknown expression.
C20_UnresolvedDegrades ==
  \A s \in Runs : \A i \in ref :
    (s.error = NoError /\ bindDone(s, i) /\ ~resolved(s, i)) =>
      \A path \in Paths :
        /\ \A interaction \in Interactions, oracle \in BOOLEAN :
             LET answer == hasEffectsOnInteractionAtPath(s, i, path, interaction, oracle).ret
             IN  answer.err = NoError /\ answer.result
        /\ \A oracle \in LiteralAnswers :
             LET answer == getLiteralValueAtPath(s, i, path, oracle).ret
             IN  answer.err = NoError /\ answer.target = UnknownValue
        /\ \A oracle \in BOOLEAN :
             LET answer == getReturnExpressionWhenCalledAtPath(s, i, path, oracle).ret
             IN  answer.err = NoError /\ answer.target = UNKNOWN_EXPRESSION

\* a query on the unresolved property key has ended the run with a TypeError,
\* its negative TDZ verdict memoised on the way
C20_Witness ==
  \E i \in ref :
    /\ bindDone(st, i) /\ ~resolved(st, i)
    /\ st.error = TypeError
    /\ st.isTDZAccess[i] = <<FALSE>>
    /\ \A d \in ids \cap DeclIds : isDeclared(st, d)

everyWatchFalse(x) ==
  \A k \in 1..Len(ensureArray(x.configs)) : ensureArray(x.configs)[k] = "false"

C21_ReturnsBeforeMerging ==
  /\ proxy.caller = "running" =>
       /\ proxy.watchInternal = "merging"
       /\ \A k \in 1..Len(proxy.merged) : proxy.merged[k] = Pending
  /\ proxy.emitter # "none" <=> proxy.caller \in {"running", "returned"}
  /\ proxy.thrown = <<>>

C21_WatcherOnlyAfter ==
  /\ Len(proxy.watchers) <= 1
  /\ Len(proxy.watchers) = 1 =>
       /\ proxy.caller = "returned"
       /\ allMerged(proxy)
       /\ \E k \in 1..Len(proxy.merged) : proxy.merged[k] # "false"
       /\ proxy.fsEvents # "none"
       /\ proxy.watchers[1] = [options |-> watchOptionsList(proxy.merged),
                               emitter |-> proxy.emitter]
       /\ ~everyWatchFalse(proxy)

C21_ErrorOnlyHandled ==
  /\ everyWatchFalse(proxy) => proxy.watchers = <<>>
  /\ proxy.rejection # NoError =>
       /\ everyWatchFalse(proxy) /\ allMerged(proxy)
       /\ proxy.rejection = errorInvalidOption("watch")
       /\ proxy.caller = "returned"
  /\ proxy.handled \in {<<>>, <<proxy.rejection>>}
  /\ proxy.handled # <<>> => proxy.rejection # NoError

C21_WatchCalled == proxy.caller = "running"

C21_Returned == proxy.caller = "returned"

C21_Settled ==
  IF everyWatchFalse(proxy)
    THEN proxy.handled = <<errorInvalidOption("watch")>> /\ proxy.watchers = <<>>
    ELSE Len(proxy.watchers) = 1 /\ proxy.handled = <<>>

====
